---- MODULE Spec2Model ----
(***************************************************************************)
(* Model of kooplearn's training modules and feature-map adapters:         *)
(*   kooplearn/encoder_decoder/nn/modules/DPNetsModule.py                  *)
(*   kooplearn/nn/modules/KoopmanDNNModule.py                              *)
(*   kooplearn/models/feature_maps/base.py                                 *)
(*                                                                         *)
(* Python values are records carrying a "tag" field, so that values of     *)
(* different Python types can be compared.  A dict is a function from keys *)
(* to values.  A hyperparameter key is a string, modelled as the sequence  *)
(* of its tokens: 'optim_lr' is <<"optim_", "lr">>, so that the f-string   *)
(* f'optim_{k}' is the concatenation <<"optim_">> \o k and two keys are    *)
(* equal exactly when the Python strings are.                              *)
(*                                                                         *)
(* One object is under test at a time; the variables describe it:          *)
(*   pc     "new" before the constructor ran, "ready" after it returned,   *)
(*          "failed" after it raised                                       *)
(*   self   the attributes of the instance                                 *)
(*   nextId the number of objects (models, optimizers, schedulers) built   *)
(*          so far, plus one: the identity of the next object              *)
(*   args   the arguments the constructor was called with                  *)
(*   call   the last call made on the object, with its arguments           *)
(*   ret    what that call returned or raised                              *)
(***************************************************************************)
EXTENDS Integers, Sequences, FiniteSets, TLC

VARIABLES pc, self, nextId, args, call, ret

vars == <<pc, self, nextId, args, call, ret>>

(***************************************************************************)
(* Bounds of the model.                                                    *)
(***************************************************************************)
\* objects that may be built in one run (models, optimizers, schedulers)
MaxObjects == 5
\* batch_idx ranges over 0 .. MaxBatchIdx
MaxBatchIdx == 1
\* every dimension of an input array is in 1 .. MaxDim
MaxDim == 2
\* a ConcatenateFeatureMaps holds at most MaxMaps feature maps
MaxMaps == 2

(***************************************************************************)
(* Python values.                                                          *)
(***************************************************************************)
None == [tag |-> "None"]

Scalar(v) == [tag |-> "scalar", v |-> v]

Dict(items) == [tag |-> "dict", items |-> items]

Raise(exc) == [tag |-> "raise", exc |-> exc]

Callable(name) == [tag |-> "callable", name |-> name]

EmptyItems == << >>

\* d[k] = v on a dict's items
SetItem(items, k, v) ==
    [x \in (DOMAIN items) \cup {k} |-> IF x = k THEN v ELSE items[x]]

\* dict.update(other)
Update(items, other) ==
    [x \in (DOMAIN items) \cup (DOMAIN other) |->
        IF x \in DOMAIN other THEN other[x] ELSE items[x]]

\* InsertPrefixed with a slip: a key already present keeps its value
\* (hparams.setdefault)
InsertPrefixedKeepFirst(hparams, prefix, items) ==
    [x \in (DOMAIN hparams) \cup {prefix \o k : k \in DOMAIN items} |->
        IF x \in DOMAIN hparams
        THEN hparams[x]
        ELSE items[CHOOSE k \in DOMAIN items : prefix \o k = x]]

\* for k, v in d.items(): hparams[f'{prefix}{k}'] = v
\* (the keys of one dict are distinct and stay distinct under a common
\* prefix, so the order of the iteration does not show in the result)
InsertPrefixed(hparams, prefix, items) ==
    [x \in (DOMAIN hparams) \cup {prefix \o k : k \in DOMAIN items} |->
        IF \E k \in DOMAIN items : prefix \o k = x
        THEN items[CHOOSE k \in DOMAIN items : prefix \o k = x]
        ELSE hparams[x]]

\* Loop with a slip: a mapping left at None is skipped
\* (for k, v in (d or {}).items())
LoopSkipNone(h, prefix, d) ==
    IF h.tag = "raise" THEN h
    ELSE IF d = None THEN h
    ELSE Dict(InsertPrefixed(h.items, prefix, d.items))

\* One loop of a constructor,
\*     for k, v in d.items(): self.hparams[f'{prefix}{k}'] = v
\* after the loops before it: h is the Dict built so far, or the exception
\* an earlier loop raised.  None has no items(): AttributeError.
Loop(h, prefix, d) ==
    IF h.tag = "raise" THEN h
    ELSE IF d = None THEN Raise("AttributeError")
    ELSE Dict(InsertPrefixed(h.items, prefix, d.items))

\* all dicts over the keys K with values in V
DictsOver(K, V) == UNION {[D -> V] : D \in SUBSET K}

Dicts(K, V) == {Dict(i) : i \in DictsOver(K, V)}

List(items) == [tag |-> "list", items |-> items]

Tuple(items) == [tag |-> "tuple", items |-> items]

HParamValues == {Scalar("u"), Scalar("v")}

(***************************************************************************)
(* LightningModule.save_hyperparameters() called with no argument inside   *)
(* __init__: the framework collects the arguments of the __init__ it is    *)
(* called from (every parameter of the signature except self) and merges   *)
(* them into self.hparams under their own names, hparams.update(init_args).*)
(* a is the record of the constructor's arguments.                         *)
(***************************************************************************)
InitArgs(a) == [x \in {<<n>> : n \in DOMAIN a} |-> a[x[1]]]

SaveHyperparameters(hparams, a) == Update(hparams, InitArgs(a))

(***************************************************************************)
(* External collaborators, left uninterpreted.                             *)
(***************************************************************************)
\* cls(**kwargs): a new object
Instance(id, cls, kwargs) ==
    [tag |-> "obj", id |-> id, cls |-> cls, kwargs |-> kwargs]

\* model(data): a mapping whose 'x_encoded' entry is fixed by the network
\* (its identity) and by the data it is given
ModelCall(model, data) ==
    [tag |-> "output", x_encoded |-> [net |-> model.id, input |-> data]]

\* loss_fn(a, b)
LossCall(loss_fn, a, b) == [tag |-> "loss", fn |-> loss_fn, args |-> <<a, b>>]

Unconstructed == [tag |-> "unconstructed"]

NoCall == [name |-> "none"]

\* batches: mappings over string keys.  x_value is always there, y_value may
\* be missing, and a batch may carry a further key.
TensorValues == {"t0", "t1"}

BatchKeySets == {{"x_value"}, {"x_value", "y_value"}, {"x_value", "y_value", "mask"}}

Batches ==
    {b \in UNION {[D -> TensorValues] : D \in BatchKeySets} :
        "mask" \in DOMAIN b => b["mask"] = "t0"}

BatchIdx == 0 .. MaxBatchIdx

Encoder == [tag |-> "class", name |-> "Encoder"]
Encoder2 == [tag |-> "class", name |-> "Encoder2"]

\* LrSchedulerConfig with a slip: the scheduler goes under 'lr_scheduler'
LrSchedulerConfigWrongKey(scheduler_config, scheduler) ==
    Dict(SetItem(scheduler_config.items, <<"lr_", "scheduler">>, scheduler))

\* lr_scheduler_config = self.scheduler_config.copy()
\* lr_scheduler_config['scheduler'] = scheduler
LrSchedulerConfig(scheduler_config, scheduler) ==
    Dict(SetItem(scheduler_config.items, <<"scheduler">>, scheduler))

\* ConfigureOptimizers with a slip: no copy(), the scheduler is written into
\* the stored scheduler_config
ConfigureOptimizersInPlace(parameters) ==
    /\ pc = "ready"
    /\ nextId + 1 <= MaxObjects
    /\ call' = [name |-> "configure_optimizers"]
    /\ LET optimizer == [tag |-> "obj", id |-> nextId, cls |-> self.optimizer_fn,
                          params |-> parameters,
                          kwargs |-> self.optimizer_hyperparameters]
       IN  IF self.scheduler_fn # None
           THEN LET scheduler == [tag |-> "obj", id |-> nextId + 1,
                                  cls |-> self.scheduler_fn,
                                  optimizer |-> optimizer.id,
                                  kwargs |-> self.scheduler_hyperparameters]
                    lr_scheduler_config ==
                        LrSchedulerConfig(self.scheduler_config, scheduler)
                IN  /\ ret' = Tuple(<<List(<<optimizer>>),
                                      List(<<lr_scheduler_config>>)>>)
                    /\ nextId' = nextId + 2
                    /\ self' = [self EXCEPT !.scheduler_config = lr_scheduler_config]
           ELSE /\ ret' = optimizer
                /\ nextId' = nextId + 1
                /\ self' = self
    /\ UNCHANGED <<pc, args>>

(***************************************************************************)
(* configure_optimizers: DPNetsModule.py lines 35-42, and the same text in *)
(* KoopmanDNNModule.py lines 62-69.  parameters is self.parameters(), the  *)
(* parameters of the submodules registered on the instance.                *)
(***************************************************************************)
ConfigureOptimizers(parameters) ==
    /\ pc = "ready"
    /\ nextId + 1 <= MaxObjects
    /\ call' = [name |-> "configure_optimizers"]
    /\ LET optimizer == [tag |-> "obj", id |-> nextId, cls |-> self.optimizer_fn,
                          params |-> parameters,
                          kwargs |-> self.optimizer_hyperparameters]
       IN  IF self.scheduler_fn # None
           THEN LET scheduler == [tag |-> "obj", id |-> nextId + 1,
                                  cls |-> self.scheduler_fn,
                                  optimizer |-> optimizer.id,
                                  kwargs |-> self.scheduler_hyperparameters]
                    lr_scheduler_config ==
                        LrSchedulerConfig(self.scheduler_config, scheduler)
                IN  /\ ret' = Tuple(<<List(<<optimizer>>),
                                      List(<<lr_scheduler_config>>)>>)
                    /\ nextId' = nextId + 2
           ELSE /\ ret' = optimizer
                /\ nextId' = nextId + 1
    /\ UNCHANGED <<pc, self, args>>

\* forward(batch): return self.model(batch)
Forward ==
    /\ pc = "ready"
    /\ \E batch \in Batches :
          /\ call' = [name |-> "forward", batch |-> batch]
          /\ ret' = ModelCall(self.model, batch)
    /\ UNCHANGED <<pc, self, nextId, args>>

(***************************************************************************)
(* DPNetsModule                                                            *)
(***************************************************************************)
\* Constructor arguments explored for the constructor itself: keys that
\* collide after prefixing ('optim_lr' of the model with 'lr' of the
\* optimizer, 'step' of the scheduler with 'step' of its config), a key that
\* is also the name of a constructor argument ('loss_fn'), and mappings left
\* at their default None.
ModelKeys == {<<"d">>, <<"optim_", "lr">>, <<"loss_fn">>}
Model2Keys == {<<"d">>}
OptimKeys == {<<"lr">>}
SchedKeys == {<<"step">>}
SchedConfigKeys == {<<"step">>, <<"scheduler">>}

DPNetsArgs ==
    [model_class : {Encoder},
     model_hyperparameters : Dicts(ModelKeys, HParamValues),
     optimizer_fn : {Callable("optimizer_fn")},
     optimizer_hyperparameters : Dicts(OptimKeys, HParamValues),
     loss_fn : {Callable("loss_fn")},
     scheduler_fn : {None, Callable("scheduler_fn")},
     scheduler_hyperparameters : {None} \cup Dicts(SchedKeys, HParamValues),
     scheduler_config : {None} \cup Dicts(SchedConfigKeys, HParamValues),
     model_class_2 : {None, Encoder, Encoder2},
     model_hyperparameters_2 : {None} \cup Dicts(Model2Keys, HParamValues)]

\* Constructor arguments explored under the hooks: every mapping supplied.
DPNetsHookArgs ==
    [model_class : {Encoder},
     model_hyperparameters : {Dict(<<"d">> :> Scalar("u"))},
     optimizer_fn : {Callable("optimizer_fn")},
     optimizer_hyperparameters : Dicts(OptimKeys, {Scalar("u")}),
     loss_fn : {Callable("loss_fn")},
     scheduler_fn : {None, Callable("scheduler_fn")},
     scheduler_hyperparameters : Dicts(SchedKeys, {Scalar("u")}),
     scheduler_config : Dicts(SchedConfigKeys, {Scalar("u")}),
     model_class_2 : {None, Encoder, Encoder2},
     model_hyperparameters_2 : {Dict(<<"d">> :> Scalar("v"))}]

\* DPNetsFlatten with a slip: scheduler_config goes under 'optim_'
DPNetsFlattenWrongPrefix(a) ==
    LET h1 == Loop(Dict(EmptyItems), << >>, a.model_hyperparameters)
        h2 == Loop(h1, <<"model_2_">>, a.model_hyperparameters_2)
        h3 == Loop(h2, <<"optim_">>, a.optimizer_hyperparameters)
        h4 == Loop(h3, <<"sched_">>, a.scheduler_hyperparameters)
        h5 == Loop(h4, <<"optim_">>, a.scheduler_config)
    IN  h5

\* lines 11-20: the five loops, in the order of the code
DPNetsFlatten(a) ==
    LET h1 == Loop(Dict(EmptyItems), << >>, a.model_hyperparameters)
        h2 == Loop(h1, <<"model_2_">>, a.model_hyperparameters_2)
        h3 == Loop(h2, <<"optim_">>, a.optimizer_hyperparameters)
        h4 == Loop(h3, <<"sched_">>, a.scheduler_hyperparameters)
        h5 == Loop(h4, <<"sched_">>, a.scheduler_config)
    IN  h5

\* lines 22-27: the two encoders
DPNetsModel(a, id) == Instance(id, a.model_class, a.model_hyperparameters)

\* DPNetsModel2 with a slip: without a second class, model_2 is a second
\* instance of the first class instead of the first instance
DPNetsModel2Copy(a, model, id) ==
    IF a.model_class_2 # None
    THEN Instance(id, a.model_class_2, a.model_hyperparameters_2)
    ELSE Instance(id, a.model_class, a.model_hyperparameters)

DPNetsModel2(a, model, id) ==
    IF a.model_class_2 # None
    THEN Instance(id, a.model_class_2, a.model_hyperparameters_2)
    ELSE model

\* lines 10-33
DPNetsInit(a) ==
    LET h == DPNetsFlatten(a)
    IN  IF h.tag = "raise"
        THEN /\ pc' = "failed"
             /\ self' = Unconstructed
             /\ nextId' = nextId
             /\ ret' = h
        ELSE LET hparams == SaveHyperparameters(h.items, a)
                 model == DPNetsModel(a, nextId)
                 model_2 == DPNetsModel2(a, model, nextId + 1)
             IN  /\ pc' = "ready"
                 /\ self' = [tag |-> "DPNetsModule",
                             hparams |-> hparams,
                             model |-> model,
                             model_2 |-> model_2,
                             optimizer_fn |-> a.optimizer_fn,
                             scheduler_fn |-> a.scheduler_fn,
                             optimizer_hyperparameters |-> a.optimizer_hyperparameters,
                             scheduler_hyperparameters |-> a.scheduler_hyperparameters,
                             scheduler_config |-> a.scheduler_config,
                             loss_fn |-> a.loss_fn]
                 /\ nextId' = IF model_2.id = model.id THEN nextId + 1 ELSE nextId + 2
                 /\ ret' = None

DPNetsConstruct(Args) ==
    /\ pc = "new"
    /\ \E a \in Args :
          /\ args' = a
          /\ call' = [name |-> "__init__"]
          /\ DPNetsInit(a)

\* self.parameters(): the parameters of the registered submodules model and
\* model_2, each once
DPNetsParameters(s) == {s.model.id, s.model_2.id}

DPNetsConfigureOptimizers ==
    /\ self.tag = "DPNetsModule"
    /\ ConfigureOptimizers(DPNetsParameters(self))

\* lines 52-54
DPNetsForward ==
    /\ self.tag = "DPNetsModule"
    /\ Forward

\* DPNetsBaseStepResult with a slip: data_y goes through model, not model_2
DPNetsBaseStepResultOneModel(s, batch, batch_idx) ==
    IF "x_value" \notin DOMAIN batch \/ "y_value" \notin DOMAIN batch
    THEN Raise("KeyError")
    ELSE LET data_x == [k \in {"x_value"} |-> batch["x_value"]]
             data_y == [k \in {"x_value"} |-> batch["y_value"]]
             x_encoded == ModelCall(s.model, data_x).x_encoded
             y_encoded == ModelCall(s.model, data_y).x_encoded
             loss == LossCall(s.loss_fn, x_encoded, y_encoded)
         IN  Dict([k \in {"loss"} |-> loss])

\* lines 56-69; a missing key makes batch[...] raise KeyError
DPNetsBaseStepResult(s, batch, batch_idx) ==
    IF "x_value" \notin DOMAIN batch \/ "y_value" \notin DOMAIN batch
    THEN Raise("KeyError")
    ELSE LET data_x == [k \in {"x_value"} |-> batch["x_value"]]
             data_y == [k \in {"x_value"} |-> batch["y_value"]]
             model_output_x == ModelCall(s.model, data_x)
             x_encoded == model_output_x.x_encoded
             model_output_y == ModelCall(s.model_2, data_y)
             y_encoded == model_output_y.x_encoded
             loss == LossCall(s.loss_fn, x_encoded, y_encoded)
         IN  Dict([k \in {"loss"} |-> loss])

DPNetsStep(name) ==
    /\ pc = "ready"
    /\ self.tag = "DPNetsModule"
    /\ \E batch \in Batches, batch_idx \in BatchIdx :
          /\ call' = [name |-> name, batch |-> batch, batch_idx |-> batch_idx]
          /\ ret' = DPNetsBaseStepResult(self, batch, batch_idx)
    /\ UNCHANGED <<pc, self, nextId, args>>

DPNetsBaseStep == DPNetsStep("base_step")

\* lines 44-46
DPNetsTrainingStep == DPNetsStep("training_step")

\* lines 48-50
DPNetsValidationStep == DPNetsStep("validation_step")

(***************************************************************************)
(* KoopmanDNNModule                                                        *)
(***************************************************************************)
KoopmanArgs ==
    [model_class : {Encoder},
     model_hyperparameters : Dicts({<<"d">>}, {Scalar("u")}),
     optimizer_fn : {Callable("optimizer_fn")},
     optimizer_hyperparameters : {Dict(<<"lr">> :> Scalar("u"))},
     loss_fn : {Callable("loss_fn")},
     koopman_estimator : {None},
     koopman_estimator_hyperparameters : {None, Dict(<<"rank">> :> Scalar("u"))},
     decoder : {None},
     decoder_hyperparameters : {None, Dict(<<"h">> :> Scalar("v"))},
     scheduler_fn : {None, Callable("scheduler_fn")},
     scheduler_hyperparameters : Dicts(SchedKeys, {Scalar("u")}),
     scheduler_config : {None} \cup Dicts(SchedKeys, {Scalar("v")})]

\* lines 13-14: the loop body reads self.hparamsxz, an attribute no
\* LightningModule has, and torch's Module.__getattr__ raises AttributeError
\* for it; an empty mapping never runs the body
KoopmanModelLoop(d) ==
    IF d = None THEN Raise("AttributeError")
    ELSE IF DOMAIN d.items # {} THEN Raise("AttributeError")
    ELSE Dict(EmptyItems)

\* lines 13-24
KoopmanFlatten(a) ==
    LET h1 == KoopmanModelLoop(a.model_hyperparameters)
        h2 == Loop(h1, <<"optim_">>, a.optimizer_hyperparameters)
        h3 == Loop(h2, <<"koop_">>, a.koopman_estimator_hyperparameters)
        h4 == Loop(h3, <<"dec_">>, a.decoder_hyperparameters)
        h5 == Loop(h4, <<"sched_">>, a.scheduler_hyperparameters)
        h6 == Loop(h5, <<"sched_">>, a.scheduler_config)
    IN  h6

\* lines 12-34
KoopmanInit(a) ==
    LET h == KoopmanFlatten(a)
    IN  IF h.tag = "raise"
        THEN /\ pc' = "failed"
             /\ self' = Unconstructed
             /\ nextId' = nextId
             /\ ret' = h
        ELSE /\ pc' = "ready"
             /\ self' = [tag |-> "KoopmanDNNModule",
                         hparams |-> SaveHyperparameters(h.items, a),
                         model |-> Instance(nextId, a.model_class,
                                            a.model_hyperparameters),
                         optimizer_fn |-> a.optimizer_fn,
                         koopman_estimator |-> a.koopman_estimator,
                         decoder |-> a.decoder,
                         scheduler_fn |-> a.scheduler_fn,
                         optimizer_hyperparameters |-> a.optimizer_hyperparameters,
                         scheduler_hyperparameters |-> a.scheduler_hyperparameters,
                         scheduler_config |-> a.scheduler_config,
                         loss_fn |-> a.loss_fn]
             /\ nextId' = nextId + 1
             /\ ret' = None

KoopmanConstruct ==
    /\ pc = "new"
    /\ \E a \in KoopmanArgs :
          /\ args' = a
          /\ call' = [name |-> "__init__"]
          /\ KoopmanInit(a)

\* self.parameters(): the parameters of the registered submodule model
\* (koopman_estimator and decoder are None here)
KoopmanParameters(s) == {s.model.id}

KoopmanConfigureOptimizers ==
    /\ self.tag = "KoopmanDNNModule"
    /\ ConfigureOptimizers(KoopmanParameters(self))

\* lines 71-73
KoopmanForward ==
    /\ self.tag = "KoopmanDNNModule"
    /\ Forward

\* KoopmanBaseStepResult with the stub filled in: a loss mapping comes back
KoopmanBaseStepResultLoss(s, batch, batch_idx) ==
    Dict([k \in {"loss"} |->
            LossCall(s.loss_fn, ModelCall(s.model, batch).x_encoded, batch)])

\* lines 75-76
KoopmanBaseStepResult(s, batch, batch_idx) == Raise("NotImplementedError")

KoopmanStep(name) ==
    /\ pc = "ready"
    /\ self.tag = "KoopmanDNNModule"
    /\ \E batch \in Batches, batch_idx \in BatchIdx :
          /\ call' = [name |-> name, batch |-> batch, batch_idx |-> batch_idx]
          /\ ret' = KoopmanBaseStepResult(self, batch, batch_idx)
    /\ UNCHANGED <<pc, self, nextId, args>>

KoopmanBaseStep == KoopmanStep("base_step")

\* lines 99-101
KoopmanTrainingStep == KoopmanStep("training_step")

\* lines 103-105
KoopmanValidationStep == KoopmanStep("validation_step")

\* lines 107-109
KoopmanTestStep == KoopmanStep("test_step")

(***************************************************************************)
(* Feature maps (models/feature_maps/base.py).  An array is its shape and  *)
(* its entries in row-major order.                                         *)
(***************************************************************************)
RECURSIVE Prod(_)
Prod(shape) == IF shape = << >> THEN 1 ELSE Head(shape) * Prod(Tail(shape))

RECURSIVE Sum(_)
Sum(q) == IF q = << >> THEN 0 ELSE Head(q) + Sum(Tail(q))

RECURSIVE FlattenSeq(_)
FlattenSeq(ss) == IF ss = << >> THEN << >> ELSE Head(ss) \o FlattenSeq(Tail(ss))

NDArray(shape, flat) == [tag |-> "ndarray", shape |-> shape, flat |-> flat]

\* np.arange(n).reshape(shape): every entry names its position
ARange(shape) == NDArray(shape, [i \in 1 .. Prod(shape) |-> i - 1])

\* the input arrays: 0-, 1- and 2-dimensional
InputShapes ==
    {<< >>} \cup {<<k>> : k \in 1 .. MaxDim}
            \cup {<<n, m>> : n \in 1 .. MaxDim, m \in 1 .. MaxDim}

InputArrays == {ARange(shape) : shape \in InputShapes}

\* np.atleast_2d
AtLeast2D(A) ==
    IF Len(A.shape) = 0 THEN NDArray(<<1, 1>>, A.flat)
    ELSE IF Len(A.shape) = 1 THEN NDArray(<<1, A.shape[1]>>, A.flat)
    ELSE A

LeadingDims(A) == SubSeq(A.shape, 1, Len(A.shape) - 1)

LastDim(A) == A.shape[Len(A.shape)]

\* the i-th run of entries along the last axis
Row(A, i) == SubSeq(A.flat, (i - 1) * LastDim(A) + 1, i * LastDim(A))

\* ConcatenateLastAxis with a slip: axis = 0
ConcatenateFirstAxis(arrays) ==
    IF arrays = << >> THEN Raise("ValueError")
    ELSE IF \E k \in 1 .. Len(arrays) : Tail(arrays[k].shape) # Tail(arrays[1].shape)
    THEN Raise("ValueError")
    ELSE NDArray(<<Sum([k \in 1 .. Len(arrays) |-> arrays[k].shape[1]])>>
                    \o Tail(arrays[1].shape),
                 FlattenSeq([k \in 1 .. Len(arrays) |-> arrays[k].flat]))

\* np.concatenate(arrays, axis = -1) on arrays of at least one dimension:
\* ValueError for no array at all and for arrays that differ in another
\* dimension than the last
ConcatenateLastAxis(arrays) ==
    IF arrays = << >> THEN Raise("ValueError")
    ELSE IF \E k \in 1 .. Len(arrays) : LeadingDims(arrays[k]) # LeadingDims(arrays[1])
    THEN Raise("ValueError")
    ELSE LET rows == Prod(LeadingDims(arrays[1]))
             total == Sum([k \in 1 .. Len(arrays) |-> LastDim(arrays[k])])
         IN  NDArray(LeadingDims(arrays[1]) \o <<total>>,
                     FlattenSeq([i \in 1 .. rows |->
                        FlattenSeq([k \in 1 .. Len(arrays) |-> Row(arrays[k], i)])]))

\* lines 8-11
IdentityFeatureMapCall(X) == AtLeast2D(X)

\* the callables handed to ConcatenateFeatureMaps
\*   identity      IdentityFeatureMap()
\*   transpose     lambda X: X.T
\*   ravel         lambda X: X.ravel()
\*   first_column  lambda X: np.atleast_2d(X)[:, :1]
FeatureMaps == {"identity", "transpose", "ravel", "first_column"}

Transpose(X) ==
    IF Len(X.shape) < 2 THEN X
    ELSE LET n == X.shape[1]
             m == X.shape[2]
         IN  NDArray(<<m, n>>,
                     [p \in 1 .. n * m |->
                        X.flat[((p - 1) % n) * m + ((p - 1) \div n) + 1]])

FirstColumn(X) ==
    LET A == AtLeast2D(X)
    IN  NDArray(<<A.shape[1], 1>>,
                [i \in 1 .. A.shape[1] |-> A.flat[(i - 1) * A.shape[2] + 1]])

FeatureMapCall(fm, X) ==
    CASE fm = "identity" -> IdentityFeatureMapCall(X)
      [] fm = "transpose" -> Transpose(X)
      [] fm = "ravel" -> NDArray(<<Prod(X.shape)>>, X.flat)
      [] fm = "first_column" -> FirstColumn(X)

\* lines 23-25
ConcatenateFeatureMapsCall(feature_maps, X) ==
    ConcatenateLastAxis([k \in 1 .. Len(feature_maps) |->
                            AtLeast2D(FeatureMapCall(feature_maps[k], X))])

FeatureMapLists == UNION {[1 .. n -> FeatureMaps] : n \in 0 .. MaxMaps}

IdentityConstruct ==
    /\ pc = "new"
    /\ pc' = "ready"
    /\ self' = [tag |-> "IdentityFeatureMap"]
    /\ call' = [name |-> "__init__"]
    /\ UNCHANGED <<nextId, args, ret>>

\* lines 19-21
ConcatenateConstruct ==
    /\ pc = "new"
    /\ \E feature_maps \in FeatureMapLists :
          /\ args' = [feature_maps |-> feature_maps]
          /\ self' = [tag |-> "ConcatenateFeatureMaps",
                      feature_maps |-> feature_maps]
    /\ pc' = "ready"
    /\ call' = [name |-> "__init__"]
    /\ UNCHANGED <<nextId, ret>>

IdentityCall ==
    /\ pc = "ready"
    /\ self.tag = "IdentityFeatureMap"
    /\ \E X \in InputArrays :
          /\ call' = [name |-> "__call__", X |-> X]
          /\ ret' = IdentityFeatureMapCall(X)
    /\ UNCHANGED <<pc, self, nextId, args>>

ConcatenateCall ==
    /\ pc = "ready"
    /\ self.tag = "ConcatenateFeatureMaps"
    /\ \E X \in InputArrays :
          /\ call' = [name |-> "__call__", X |-> X]
          /\ ret' = ConcatenateFeatureMapsCall(self.feature_maps, X)
    /\ UNCHANGED <<pc, self, nextId, args>>

(***************************************************************************)
(* Specifications.                                                         *)
(***************************************************************************)
Init ==
    /\ pc = "new"
    /\ self = Unconstructed
    /\ nextId = 1
    /\ args = None
    /\ call = NoCall
    /\ ret = None

\* the two training modules under their hooks
Next ==
    \/ DPNetsConstruct(DPNetsHookArgs)
    \/ DPNetsConfigureOptimizers
    \/ DPNetsBaseStep
    \/ DPNetsTrainingStep
    \/ DPNetsValidationStep
    \/ DPNetsForward
    \/ KoopmanConstruct
    \/ KoopmanConfigureOptimizers
    \/ KoopmanBaseStep
    \/ KoopmanTrainingStep
    \/ KoopmanValidationStep
    \/ KoopmanTestStep
    \/ KoopmanForward

Spec == Init /\ [][Next]_vars

\* the DPNetsModule constructor alone, on the larger family of arguments
NextInit == DPNetsConstruct(DPNetsArgs)

SpecInit == Init /\ [][NextInit]_vars

\* the feature maps
NextFeatureMaps ==
    \/ IdentityConstruct
    \/ ConcatenateConstruct
    \/ IdentityCall
    \/ ConcatenateCall

SpecFeatureMaps == Init /\ [][NextFeatureMaps]_vars

(***************************************************************************)
(* Properties.                                                             *)
(***************************************************************************)
IsDPNets == pc = "ready" /\ self.tag = "DPNetsModule"

IsKoopman == pc = "ready" /\ self.tag = "KoopmanDNNModule"

StepNames == {"base_step", "training_step", "validation_step", "test_step"}

\* C1: in a constructed DPNetsModule, model_2 is the very object model if and
\* only if model_class_2 was None; otherwise model_2 is a separate instance
\* of model_class_2 built with model_hyperparameters_2.  The relation holds
\* in every state, hence after any sequence of hook calls.
C1_ModelAliasing ==
    IsDPNets =>
        /\ (self.model_2.id = self.model.id) <=> (args.model_class_2 = None)
        /\ args.model_class_2 = None => self.model_2 = self.model
        /\ args.model_class_2 # None =>
              /\ self.model_2.cls = args.model_class_2
              /\ self.model_2.kwargs = args.model_hyperparameters_2
        /\ self.model.cls = args.model_class
        /\ self.model.kwargs = args.model_hyperparameters

\* a second encoder of the same class as the first, after a hook has run
C1_Witness ==
    /\ IsDPNets
    /\ args.model_class_2 = args.model_class
    /\ self.model_2.id # self.model.id
    /\ call.name = "training_step"

\* the optimizer and the scheduler configuration a configure_optimizers
\* call returned
RetOptimizer == IF ret.tag = "tuple" THEN ret.items[1].items[1] ELSE ret

RetConfig == ret.items[2].items[1]

RegisteredParameters ==
    IF self.tag = "DPNetsModule"
    THEN {self.model.id, self.model_2.id}
    ELSE {self.model.id}

\* o is optimizer_fn(self.parameters(), **optimizer_hyperparameters), built
\* by the last call
BuiltOptimizer(o, id) ==
    /\ o.tag = "obj"
    /\ o.id = id
    /\ o.cls = args.optimizer_fn
    /\ o.params = RegisteredParameters
    /\ o.kwargs = args.optimizer_hyperparameters

\* c is a dict whose 'scheduler' entry is
\* scheduler_fn(optimizer, **scheduler_hyperparameters), built by the last
\* call, and that has the entries of scheduler_config under the keys Kept
\* and nothing else
BuiltConfig(c, o, Kept) ==
    /\ c.tag = "dict"
    /\ DOMAIN c.items = Kept \cup {<<"scheduler">>}
    /\ \A k \in Kept : c.items[k] = args.scheduler_config.items[k]
    /\ LET sch == c.items[<<"scheduler">>]
       IN  /\ sch.tag = "obj"
           /\ sch.id = nextId - 1
           /\ sch.cls = args.scheduler_fn
           /\ sch.optimizer = o.id
           /\ sch.kwargs = args.scheduler_hyperparameters

ReturnShape(Kept) ==
    IF args.scheduler_fn = None
    THEN BuiltOptimizer(ret, nextId - 1)
    ELSE /\ ret.tag = "tuple"
         /\ Len(ret.items) = 2
         /\ ret.items[1].tag = "list"
         /\ Len(ret.items[1].items) = 1
         /\ BuiltOptimizer(RetOptimizer, nextId - 2)
         /\ ret.items[2].tag = "list"
         /\ Len(ret.items[2].items) = 1
         /\ BuiltConfig(RetConfig, RetOptimizer, Kept)

\* C2 as stated: the returned config has every entry of scheduler_config
\* plus the 'scheduler' entry.
C2_Original ==
    (pc = "ready" /\ call.name = "configure_optimizers") =>
        ReturnShape(DOMAIN args.scheduler_config.items)

\* C2 (amended): configure_optimizers returns the bare optimizer built by
\* optimizer_fn(parameters, **optimizer_hyperparameters) when scheduler_fn
\* is None, and otherwise the pair ([optimizer], [config]) where config has
\* the entries of scheduler_config under every key other than 'scheduler',
\* plus a 'scheduler' entry holding the scheduler newly built by
\* scheduler_fn on that optimizer with scheduler_hyperparameters; an entry
\* the caller put under 'scheduler' is replaced.  No third shape.
C2_ReturnShape ==
    (pc = "ready" /\ call.name = "configure_optimizers") =>
        ReturnShape(DOMAIN args.scheduler_config.items \ {<<"scheduler">>})

\* the pair is returned, for a scheduler_config with two entries
C2_Witness ==
    /\ pc = "ready"
    /\ call.name = "configure_optimizers"
    /\ ret.tag = "tuple"
    /\ DOMAIN args.scheduler_config.items = {<<"step">>, <<"scheduler">>}

\* C3: on a batch with x_value and y_value, base_step, training_step and
\* validation_step of DPNetsModule return exactly
\* {'loss': loss_fn(model({'x_value': x})['x_encoded'],
\*                   model_2({'x_value': y})['x_encoded'])},
\* a value fixed by x_value and y_value alone; with model_2 is model and
\* x_value = y_value the two arguments of loss_fn are identical.
C3_StepLoss ==
    (IsDPNets /\ call.name \in StepNames
              /\ {"x_value", "y_value"} \subseteq DOMAIN call.batch) =>
        LET x == call.batch["x_value"]
            y == call.batch["y_value"]
            x_encoded == ModelCall(self.model, ("x_value" :> x)).x_encoded
            y_encoded == ModelCall(self.model_2, ("x_value" :> y)).x_encoded
        IN  /\ ret = Dict("loss" :> LossCall(args.loss_fn, x_encoded, y_encoded))
            /\ (self.model_2 = self.model /\ x = y) =>
                   ret.items["loss"].args[1] = ret.items["loss"].args[2]

\* validation_step with a shared encoder on a batch that has a further key,
\* equal samples and a batch_idx other than 0
C3_Witness ==
    /\ IsDPNets
    /\ call.name = "validation_step"
    /\ "mask" \in DOMAIN call.batch
    /\ call.batch["x_value"] = call.batch["y_value"]
    /\ call.batch_idx = 1
    /\ self.model_2 = self.model
    /\ ret.tag = "dict"

\* The entries handed to the DPNetsModule constructor: <<i, k>> is the
\* entry under key k of the i-th mapping, in the order of the loops.
DPNetsSources ==
    << << << >>, args.model_hyperparameters >>,
       << <<"model_2_">>, args.model_hyperparameters_2 >>,
       << <<"optim_">>, args.optimizer_hyperparameters >>,
       << <<"sched_">>, args.scheduler_hyperparameters >>,
       << <<"sched_">>, args.scheduler_config >> >>

Entries ==
    {e \in (1 .. 5) \X (ModelKeys \cup Model2Keys \cup OptimKeys
                           \cup SchedKeys \cup SchedConfigKeys) :
        e[2] \in DOMAIN DPNetsSources[e[1]][2].items}

FullKey(e) == DPNetsSources[e[1]][1] \o e[2]

Value(e) == DPNetsSources[e[1]][2].items[e[2]]

FullKeys == {FullKey(e) : e \in Entries}

Disjoint == \A e1, e2 \in Entries : FullKey(e1) = FullKey(e2) => e1 = e2

\* the entry of the latest loop that writes the full key fk
LastEntry(fk) ==
    CHOOSE e \in Entries :
        /\ FullKey(e) = fk
        /\ \A f \in Entries : FullKey(f) = fk => f[1] <= e[1]

\* the names of the constructor's arguments, as keys
ArgNames ==
    {<<"model_class">>, <<"model_hyperparameters">>, <<"optimizer_fn">>,
     <<"optimizer_hyperparameters">>, <<"loss_fn">>, <<"scheduler_fn">>,
     <<"scheduler_hyperparameters">>, <<"scheduler_config">>,
     <<"model_class_2">>, <<"model_hyperparameters_2">>}

AllMappingsGiven ==
    /\ args.model_hyperparameters_2 # None
    /\ args.scheduler_hyperparameters # None
    /\ args.scheduler_config # None

\* C4 as stated: with disjoint prefixed keys, hparams is exactly the union
\* of the entries under their prefixed names.
C4_Original ==
    (pc = "ready" /\ Disjoint) =>
        /\ DOMAIN self.hparams = FullKeys
        /\ \A e \in Entries : self.hparams[FullKey(e)] = Value(e)

\* C4 (amended): with prefixed keys that are disjoint from each other and
\* from the names of the constructor's arguments, hparams after
\* construction contains every input entry under its prefixed name with its
\* value; the only other keys are the names of the ten constructor
\* arguments, which save_hyperparameters() adds, each with the argument's
\* value.
C4_FlattenedUnion ==
    (pc = "ready" /\ Disjoint /\ FullKeys \cap ArgNames = {}) =>
        /\ DOMAIN self.hparams = FullKeys \cup ArgNames
        /\ \A e \in Entries : self.hparams[FullKey(e)] = Value(e)
        /\ \A n \in ArgNames : self.hparams[n] = args[n[1]]

\* all five mappings non-empty, no two entries under one name
C4_Witness ==
    /\ pc = "ready"
    /\ Disjoint
    /\ FullKeys \cap ArgNames = {}
    /\ \A i \in 1 .. 5 : \E e \in Entries : e[1] = i
    /\ <<"sched_", "scheduler">> \in DOMAIN self.hparams

\* C8 as stated: on a collision construction succeeds, the later insert in
\* the order of the five mappings wins, and hparams has fewer entries than
\* the inputs had in total.
C8_Original ==
    (pc # "new" /\ AllMappingsGiven /\ ~Disjoint) =>
        /\ pc = "ready"
        /\ \A fk \in FullKeys : self.hparams[fk] = Value(LastEntry(fk))
        /\ \A k \in DOMAIN args.scheduler_hyperparameters.items
                     \cap DOMAIN args.scheduler_config.items :
              self.hparams[<<"sched_">> \o k] = args.scheduler_config.items[k]
        /\ Cardinality(DOMAIN self.hparams) < Cardinality(Entries)

\* C8 (amended): on a collision construction raises no error and hparams
\* keeps the value of the later insert, in the fixed order
\* model_hyperparameters, model_hyperparameters_2,
\* optimizer_hyperparameters, scheduler_hyperparameters, scheduler_config,
\* followed by the constructor's arguments, which save_hyperparameters()
\* inserts last under their own names; a key of both
\* scheduler_hyperparameters and scheduler_config ends up under
\* 'sched_<key>' with the scheduler_config value, and hparams then has
\* fewer entries than the inputs had in total plus the ten constructor
\* arguments.
C8_LaterInsertWins ==
    (pc # "new" /\ AllMappingsGiven /\ ~Disjoint) =>
        /\ pc = "ready"
        /\ \A fk \in FullKeys \ ArgNames :
              self.hparams[fk] = Value(LastEntry(fk))
        /\ \A n \in ArgNames : self.hparams[n] = args[n[1]]
        /\ \A k \in DOMAIN args.scheduler_hyperparameters.items
                     \cap DOMAIN args.scheduler_config.items :
              self.hparams[<<"sched_">> \o k] = args.scheduler_config.items[k]
        /\ Cardinality(DOMAIN self.hparams) < Cardinality(Entries) + Cardinality(ArgNames)

\* 'step' given to the scheduler and to its config with different values,
\* 'optim_lr' given to the model and 'lr' to the optimizer
C8_Witness ==
    /\ pc = "ready"
    /\ <<"step">> \in DOMAIN args.scheduler_hyperparameters.items
    /\ <<"step">> \in DOMAIN args.scheduler_config.items
    /\ args.scheduler_hyperparameters.items[<<"step">>]
          # args.scheduler_config.items[<<"step">>]
    /\ self.hparams[<<"sched_", "step">>] = args.scheduler_config.items[<<"step">>]
    /\ <<"optim_", "lr">> \in DOMAIN args.model_hyperparameters.items
    /\ <<"lr">> \in DOMAIN args.optimizer_hyperparameters.items
    /\ args.model_hyperparameters.items[<<"optim_", "lr">>]
          # args.optimizer_hyperparameters.items[<<"lr">>]

\* C9: the DPNetsModule constructor fails, before any model is
\* instantiated, when model_hyperparameters_2, scheduler_hyperparameters or
\* scheduler_config is None, whatever model_class_2 and scheduler_fn are;
\* with the mappings given it succeeds also when scheduler_fn and
\* model_class_2 are None.
C9_MappingsRequired ==
    pc # "new" =>
        /\ ~AllMappingsGiven =>
              /\ pc = "failed"
              /\ ret.tag = "raise"
              /\ self = Unconstructed
              /\ nextId = 1
        /\ AllMappingsGiven => pc = "ready"

\* only model_hyperparameters_2 left at None, with no second model class
\* and no scheduler
C9_Witness ==
    /\ pc = "failed"
    /\ args.model_class_2 = None
    /\ args.scheduler_fn = None
    /\ args.model_hyperparameters_2 = None
    /\ args.scheduler_hyperparameters # None
    /\ args.scheduler_config # None

\* the identities of the objects a configure_optimizers call returned
RetObjectIds(r) ==
    IF r.tag = "tuple"
    THEN {r.items[1].items[1].id, r.items[2].items[1].items[<<"scheduler">>].id}
    ELSE {r.id}

\* C10: no hook of a constructed DPNetsModule changes hparams or the stored
\* scheduler_config, which stays the mapping the constructor was given, and
\* every configure_optimizers call returns an optimizer and a scheduler
\* that did not exist before the call.
C10_HooksKeepConfiguration ==
    [][IsDPNets =>
          /\ self'.hparams = self.hparams
          /\ self'.scheduler_config = self.scheduler_config
          /\ self'.scheduler_config = args.scheduler_config
          /\ call'.name = "configure_optimizers" =>
                \A id \in RetObjectIds(ret') : id >= nextId]_vars

\* a second configure_optimizers call with a scheduler has returned
C10_Witness ==
    /\ IsDPNets
    /\ call.name = "configure_optimizers"
    /\ ret.tag = "tuple"
    /\ nextId >= 6
    /\ <<"scheduler">> \notin DOMAIN self.scheduler_config.items

KoopmanMappingsGiven ==
    /\ "koopman_estimator_hyperparameters" \in DOMAIN args
    /\ args.koopman_estimator_hyperparameters # None
    /\ args.decoder_hyperparameters # None
    /\ args.scheduler_hyperparameters # None
    /\ args.scheduler_config # None

HasPrefixed(prefix, d) ==
    \A k \in DOMAIN d.items :
        /\ prefix \o k \in DOMAIN self.hparams
        /\ self.hparams[prefix \o k] = d.items[k]

\* C5: constructing a KoopmanDNNModule with every mapping supplied succeeds
\* and hparams holds the model's entries unprefixed and the others under
\* 'optim_', 'koop_', 'dec_' and 'sched_'.
C5_KoopmanConstructs ==
    (pc # "new" /\ KoopmanMappingsGiven) =>
        /\ pc = "ready"
        /\ HasPrefixed(<< >>, args.model_hyperparameters)
        /\ HasPrefixed(<<"optim_">>, args.optimizer_hyperparameters)
        /\ HasPrefixed(<<"koop_">>, args.koopman_estimator_hyperparameters)
        /\ HasPrefixed(<<"dec_">>, args.decoder_hyperparameters)
        /\ HasPrefixed(<<"sched_">>, args.scheduler_config)

\* C6: on a constructed KoopmanDNNModule base_step, training_step,
\* validation_step and test_step raise NotImplementedError and change
\* nothing of the module, and no call returns a loss mapping.
C6_KoopmanStepsRaise ==
    [][IsKoopman =>
          /\ call'.name \in StepNames =>
                /\ ret' = Raise("NotImplementedError")
                /\ self' = self
                /\ nextId' = nextId
                /\ pc' = pc
          /\ ret'.tag # "dict"]_vars

\* test_step has raised
C6_Witness ==
    /\ IsKoopman
    /\ call.name = "test_step"
    /\ ret = Raise("NotImplementedError")
    /\ call.batch_idx = 1

\* entry (i, j), from 1, of a two-dimensional array
At(A, i, j) == A.flat[(i - 1) * A.shape[2] + j]

\* R is A and B side by side: the columns of A, then those of B
SideBySide(R, A, B) ==
    /\ R.tag = "ndarray"
    /\ R.shape = <<A.shape[1], A.shape[2] + B.shape[2]>>
    /\ Len(R.flat) = A.shape[1] * (A.shape[2] + B.shape[2])
    /\ \A i \in 1 .. A.shape[1] :
          /\ \A j \in 1 .. A.shape[2] : At(R, i, j) = At(A, i, j)
          /\ \A j \in 1 .. B.shape[2] : At(R, i, A.shape[2] + j) = At(B, i, j)

\* C7: ConcatenateFeatureMaps over two maps whose outputs on X have shapes
\* (n, a) and (n, b) returns the (n, a+b) array of the first output's
\* columns followed by the second's; two maps returning vectors of lengths
\* a and b give shape (1, a+b).
C7_ConcatenateShape ==
    (pc = "ready" /\ self.tag = "ConcatenateFeatureMaps"
                  /\ call.name = "__call__" /\ Len(self.feature_maps) = 2) =>
        LET A == FeatureMapCall(self.feature_maps[1], call.X)
            B == FeatureMapCall(self.feature_maps[2], call.X)
        IN  /\ (Len(A.shape) = 2 /\ Len(B.shape) = 2 /\ A.shape[1] = B.shape[1]) =>
                  SideBySide(ret, A, B)
            /\ (Len(A.shape) = 1 /\ Len(B.shape) = 1) =>
                  /\ ret.tag = "ndarray"
                  /\ ret.shape = <<1, A.shape[1] + B.shape[1]>>
                  /\ ret.flat = A.flat \o B.flat

\* outputs of shapes (2, 2) and (2, 1) give shape (2, 3)
C7_Witness ==
    /\ pc = "ready"
    /\ self.tag = "ConcatenateFeatureMaps"
    /\ call.name = "__call__"
    /\ self.feature_maps = <<"identity", "first_column">>
    /\ call.X.shape = <<2, 2>>
    /\ ret.tag = "ndarray"
    /\ ret.shape = <<2, 3>>
    /\ ret.flat = <<0, 1, 0, 2, 3, 2>>
====
